---- MODULE Spec2Model ----
(***************************************************************************)
(* Model of src/streamlit_app.py, the investment portfolio simulator.      *)
(*                                                                         *)
(* One script run is one behaviour: the widgets have been read (Init),     *)
(* then the frames are filtered, extended with the return and rolling      *)
(* average columns and merged (Prepare), the simulation loop walks the     *)
(* merged table (LoopStep, LoopExit), the chart is rendered (Plot) and the *)
(* final metrics are written (Metrics).                                    *)
(*                                                                         *)
(* Dates are day numbers.  Money and returns are Python floats in the      *)
(* source; here they are exact rationals [num, den] in lowest terms, so    *)
(* the arithmetic is that of the source without its rounding.              *)
(***************************************************************************)
EXTENDS Integers, Sequences, FiniteSets, TLC

\* ------------------------------------------------------------------------
\* Bounds of the model
\* ------------------------------------------------------------------------

\* Most rows of the loaded calendar (rows of either CSV) in Spec.
MaxRows == 3

\* Longest gap-free window (last day number) in SpecDaily.
MaxDays == 91

\* ------------------------------------------------------------------------
\* Program constants
\* ------------------------------------------------------------------------

\* rolling(window=90, min_periods=1)
Window == 90

\* Mutant: the look-back is a month instead of a year
InitialLookbackMonth == 365 \div 12

\* start_date - timedelta(days=365)
InitialLookback == 365

\* waiting_weeks * 7
DaysPerWeek == 7

\* frequency -> timedelta(days=...)
FrequencyDays(f) ==
    CASE f = "Weekly" -> 7
      [] f = "Monthly" -> 30
      [] f = "Quarterly" -> 90

Frequencies == {"Weekly", "Monthly", "Quarterly"}

\* ------------------------------------------------------------------------
\* Exact arithmetic standing for the source's float arithmetic
\* ------------------------------------------------------------------------

Abs(x) == IF x < 0 THEN -x ELSE x

RECURSIVE GCD(_, _)
GCD(a, b) == IF b = 0 THEN a ELSE GCD(b, a % b)

\* n/d in lowest terms, d > 0
Rat(n, d) ==
    LET g == GCD(Abs(n), d)
    IN  [num |-> n \div g, den |-> d \div g]

FromInt(n) == [num |-> n, den |-> 1]

Zero == FromInt(0)

RAdd(a, b) ==
    LET g == GCD(a.den, b.den)
    IN  Rat(a.num * (b.den \div g) + b.num * (a.den \div g), (a.den \div g) * b.den)

RSub(a, b) == RAdd(a, [num |-> -b.num, den |-> b.den])

RMul(a, b) ==
    LET g1 == GCD(Abs(a.num), b.den)
        g2 == GCD(Abs(b.num), a.den)
    IN  Rat((a.num \div g1) * (b.num \div g2), (a.den \div g2) * (b.den \div g1))

\* a / b for b # 0
RDiv(a, b) ==
    IF b.num > 0 THEN RMul(a, [num |-> b.den, den |-> b.num])
    ELSE RMul(a, [num |-> -b.den, den |-> -b.num])

RLess(a, b) == a.num * b.den < b.num * a.den

\* ------------------------------------------------------------------------
\* Frame operations (pandas)
\* ------------------------------------------------------------------------

\* df[(df['Date'] >= start_date) & (df['Date'] <= end_date)]
FilterRange(df, s, e) ==
    SelectSeq(df, LAMBDA r : r.Date >= s /\ r.Date <= e)

\* Mutant: the change is divided by the day's own close
DailyReturnOverClose(df, k) ==
    IF k = 1 THEN Zero
    ELSE Rat(df[k].Close - df[k - 1].Close, df[k].Close)

\* df['Close'].pct_change().fillna(0) at row k (1-based): the first row has
\* no predecessor, its NaN is filled with 0.
DailyReturn(df, k) ==
    IF k = 1 THEN Zero
    ELSE Rat(df[k].Close - df[k - 1].Close, df[k - 1].Close)

\* df['Daily Return'] * leverage
LeveragedReturn(df, k, leverage) == RMul(DailyReturn(df, k), FromInt(leverage))

\* Sum of the closes of rows lo..hi, by halves
RECURSIVE SumClose(_, _, _)
SumClose(df, lo, hi) ==
    IF lo > hi THEN 0
    ELSE IF lo = hi THEN df[lo].Close
    ELSE LET mid == (lo + hi) \div 2
         IN  SumClose(df, lo, mid) + SumClose(df, mid + 1, hi)

\* df['Close'].rolling(window=90, min_periods=1).mean() at row k
RollingMean(df, k) ==
    LET lo == IF k - Window + 1 > 1 THEN k - Window + 1 ELSE 1
    IN  Rat(SumClose(df, lo, k), k - lo + 1)

\* The QQQ frame with its derived columns
WithColumnsQQQ(df, leverage) ==
    [k \in 1..Len(df) |->
        [Date |-> df[k].Date,
         Close |-> df[k].Close,
         Return |-> LeveragedReturn(df, k, leverage),
         avg |-> RollingMean(df, k)]]

\* The TLT frame with its derived column
WithColumnsTLT(df, leverage) ==
    [k \in 1..Len(df) |->
        [Date |-> df[k].Date,
         Return |-> LeveragedReturn(df, k, leverage)]]

\* The row of frame t dated d (dates are unique)
RowAt(t, d) == t[CHOOSE k \in 1..Len(t) : t[k].Date = d]

HasDate(t, d) == \E k \in 1..Len(t) : t[k].Date = d

\* pd.merge(..., on='Date'): the rows of q whose date t has too (inner join,
\* left order), then the 'Portfolio Value' column set to initial_investment
\* on every row
Merge(q, t, initial) ==
    LET kept == SelectSeq(q, LAMBDA r : HasDate(t, r.Date))
    IN  [k \in 1..Len(kept) |->
            [Date |-> kept[k].Date,
             Return_QQQ |-> kept[k].Return,
             Close |-> kept[k].Close,
             avg |-> kept[k].avg,
             Return_TLT |-> RowAt(t, kept[k].Date).Return,
             Portfolio_Value |-> initial]]

\* ------------------------------------------------------------------------
\* State
\* ------------------------------------------------------------------------

VARIABLES
    \* the frames as loaded (load_data, NaT rows dropped): sequences of
    \* [Date, Close] in ascending date order
    df_qqq, df_tlt,
    \* widget values
    start_date, end_date,
    initial_investment, recurring_amount, frequency,
    qqq_weight, qqq_leverage, tlt_leverage,
    use_conditional_investment, conditional_investment_amount,
    percentage_decrease, waiting_weeks,
    \* the merged table and the loop's variables
    df_combined, i, current_date, last_conditional_investment_date,
    recurring_investment_total, recurring_investment_count,
    conditional_investment_total, conditional_investment_count,
    conditional_investment_dates,
    \* the dates of the rows on which the recurring branch ran (the source
    \* keeps only their count)
    recurring_investment_dates,
    \* what st.plotly_chart was given: <<>> before the call, then <<figure>>
    chart,
    \* what the metrics section wrote: <<>> before it, then <<metrics>>
    report,
    \* position in the script, and how the run ended
    pc, outcome

inputs ==
    <<df_qqq, df_tlt, start_date, end_date, initial_investment,
      recurring_amount, frequency, qqq_weight, qqq_leverage, tlt_leverage,
      use_conditional_investment, conditional_investment_amount,
      percentage_decrease, waiting_weeks>>

loopvars ==
    <<df_combined, i, current_date, last_conditional_investment_date,
      recurring_investment_total, recurring_investment_count,
      conditional_investment_total, conditional_investment_count,
      conditional_investment_dates, recurring_investment_dates>>

vars == <<inputs, loopvars, chart, report, pc, outcome>>

tlt_weight == 100 - qqq_weight

\* ------------------------------------------------------------------------
\* Inputs: the loaded price data and the widget values
\* ------------------------------------------------------------------------

\* Calendar gaps between consecutive loaded rows
Gaps == {1, 21}

\* One calendar day's closes; 0 stands for "this CSV has no row that day"
Quotes ==
    {[q |-> 110, t |-> 100], [q |-> 99, t |-> 100], [q |-> 100, t |-> 125],
     [q |-> 99, t |-> 0], [q |-> 0, t |-> 100]}

RECURSIVE CalendarDate(_, _)
CalendarDate(gaps, k) == IF k = 1 THEN 0 ELSE CalendarDate(gaps, k - 1) + gaps[k - 1]

RECURSIVE FrameOf(_, _, _, _)
FrameOf(quotes, gaps, k, asset) ==
    IF k > Len(quotes) THEN <<>>
    ELSE LET c == IF asset = "QQQ" THEN quotes[k].q ELSE quotes[k].t
         IN  (IF c = 0 THEN <<>>
              ELSE <<[Date |-> CalendarDate(gaps, k), Close |-> c]>>)
             \o FrameOf(quotes, gaps, k + 1, asset)

MinDate(df) == df[1].Date

MaxDate(df) == df[Len(df)].Date

Max(a, b) == IF a > b THEN a ELSE b

Min(a, b) == IF a < b THEN a ELSE b

common_start_date == Max(MinDate(df_qqq), MinDate(df_tlt))

common_end_date == Min(MaxDate(df_qqq), MaxDate(df_tlt))

\* (initial_investment, recurring_amount)
Fundings == {<<1000, 100>>, <<0, 0>>}

\* (qqq_weight, qqq_leverage, tlt_leverage)
Portfolios == {<<100, 3, 1>>, <<50, 3, 1>>}

Percentages == {0, 5}

WaitingWeeks == {0, 3, 53}

ConditionalAmounts == {500}

\* The date pickers keep start_date in [common_start_date, common_end_date]
\* and end_date in [start_date, common_end_date].
InitDates ==
    /\ start_date \in {common_start_date, common_start_date + 1}
    /\ start_date <= common_end_date
    /\ end_date \in {start_date, common_end_date}
    /\ (start_date = common_start_date) => (end_date = common_end_date)

\* The other widgets; the conditional inputs keep their initial 0 unless the
\* checkbox is ticked.
InitWidgets ==
    /\ \E f \in Fundings :
          /\ initial_investment = f[1]
          /\ recurring_amount = f[2]
    /\ frequency \in Frequencies
    /\ \E p \in Portfolios :
          /\ qqq_weight = p[1]
          /\ qqq_leverage = p[2]
          /\ tlt_leverage = p[3]
    /\ use_conditional_investment \in BOOLEAN
    /\ IF use_conditional_investment
       THEN /\ conditional_investment_amount \in ConditionalAmounts
            /\ percentage_decrease \in Percentages
            /\ waiting_weeks \in WaitingWeeks
       ELSE /\ conditional_investment_amount = 0
            /\ percentage_decrease = 0
            /\ waiting_weeks = 0

InitRun ==
    /\ df_combined = <<>>
    /\ i = 0
    /\ current_date = 0
    /\ last_conditional_investment_date = 0
    /\ recurring_investment_total = 0
    /\ recurring_investment_count = 0
    /\ conditional_investment_total = 0
    /\ conditional_investment_count = 0
    /\ conditional_investment_dates = <<>>
    /\ recurring_investment_dates = <<>>
    /\ chart = <<>>
    /\ report = <<>>
    /\ pc = "prepare"
    /\ outcome = "running"

Init ==
    /\ \E n \in 1..MaxRows :
         \E quotes \in [1..n -> Quotes], gaps \in [1..(n - 1) -> Gaps] :
            /\ df_qqq = FrameOf(quotes, gaps, 1, "QQQ")
            /\ df_tlt = FrameOf(quotes, gaps, 1, "TLT")
    /\ df_qqq # <<>>
    /\ df_tlt # <<>>
    /\ InitDates
    /\ InitWidgets
    /\ InitRun

\* A gap-free window: both CSVs have a row for every calendar day from the
\* day before start_date (day 0) to the day after end_date (day n), at a
\* constant close.
DailyFrame(n) == [k \in 1..(n + 3) |-> [Date |-> k - 2, Close |-> 100]]

InitDaily ==
    /\ \E n \in 0..MaxDays :
          /\ df_qqq = DailyFrame(n)
          /\ df_tlt = DailyFrame(n)
          /\ end_date = n
    /\ start_date = 0
    /\ InitWidgets
    /\ InitRun

\* ------------------------------------------------------------------------
\* The script
\* ------------------------------------------------------------------------

\* Lines 83-112: filter, derived columns, merge, loop variables
Prepare ==
    /\ pc = "prepare"
    /\ LET q == WithColumnsQQQ(FilterRange(df_qqq, start_date, end_date), qqq_leverage)
           t == WithColumnsTLT(FilterRange(df_tlt, start_date, end_date), tlt_leverage)
       IN  df_combined' = Merge(q, t, FromInt(initial_investment))
    /\ current_date' = start_date + FrequencyDays(frequency)
    /\ last_conditional_investment_date' = start_date - InitialLookback
    /\ recurring_investment_total' = 0
    /\ recurring_investment_count' = 0
    /\ conditional_investment_total' = 0
    /\ conditional_investment_count' = 0
    /\ conditional_investment_dates' = <<>>
    /\ recurring_investment_dates' = <<>>
    /\ i' = 1
    /\ pc' = "loop"
    /\ UNCHANGED <<inputs, chart, report, outcome>>

\* Row i of df_combined in the source's 0-based numbering
Row(k) == df_combined[k + 1]

\* 1 + (qqq_weight / 100) * qqq_return + (tlt_weight / 100) * tlt_return
Multiplier(row) ==
    RAdd(RAdd(FromInt(1), RMul(Rat(qqq_weight, 100), row.Return_QQQ)),
         RMul(Rat(tlt_weight, 100), row.Return_TLT))

\* Mutant: the due date itself does not fire
RecurringDueStrict(row) == row.Date > current_date

\* df_combined.iloc[i]['Date'] >= current_date
RecurringDue(row) == row.Date >= current_date

\* Mutant: the next due date is counted from the day of the contribution
NextRecurringDateRelative(row) == row.Date + FrequencyDays(frequency)

\* current_date += timedelta(days=...) on the row where the branch runs
NextRecurringDate(row) == current_date + FrequencyDays(frequency)

\* Mutant: a close equal to the threshold counts as below it
BelowAverageOrEqual(row) ==
    ~RLess(RMul(RSub(FromInt(1), Rat(percentage_decrease, 100)), row.avg),
           FromInt(row.Close))

\* Close < (1 - percentage_decrease / 100) * 90_day_avg
BelowAverage(row) ==
    RLess(FromInt(row.Close),
          RMul(RSub(FromInt(1), Rat(percentage_decrease, 100)), row.avg))

\* Mutant: the cooldown test always passes
CooldownIgnored(row) == row.Date >= last_conditional_investment_date

\* (Date - last_conditional_investment_date).days >= waiting_weeks * 7
CooldownOver(row) ==
    row.Date - last_conditional_investment_date >= waiting_weeks * DaysPerWeek

\* Mutant: the conditional branch is an elif of the recurring branch
ConditionalDueElif(row) ==
    /\ ~RecurringDue(row)
    /\ use_conditional_investment
    /\ BelowAverage(row)
    /\ CooldownOver(row)

\* Lines 133-134: the two nested conditions of the conditional branch
ConditionalDue(row) ==
    use_conditional_investment /\ BelowAverage(row) /\ CooldownOver(row)

\* Lines 114-139: one iteration of the loop
LoopStep ==
    /\ pc = "loop"
    /\ i < Len(df_combined)
    /\ LET row == Row(i)
           compounded == RMul(Row(i - 1).Portfolio_Value, Multiplier(row))
           rec == RecurringDue(row)
           afterRec == IF rec THEN RAdd(compounded, FromInt(recurring_amount))
                       ELSE compounded
           cond == ConditionalDue(row)
           afterCond == IF cond
                        THEN RAdd(afterRec, FromInt(conditional_investment_amount))
                        ELSE afterRec
       IN  /\ df_combined' = [df_combined EXCEPT ![i + 1].Portfolio_Value = afterCond]
           /\ IF rec
              THEN /\ recurring_investment_total' =
                         recurring_investment_total + recurring_amount
                   /\ recurring_investment_count' = recurring_investment_count + 1
                   /\ current_date' = NextRecurringDate(row)
                   /\ recurring_investment_dates' =
                         Append(recurring_investment_dates, row.Date)
              ELSE UNCHANGED <<recurring_investment_total, recurring_investment_count,
                               current_date, recurring_investment_dates>>
           /\ IF cond
              THEN /\ conditional_investment_total' =
                         conditional_investment_total + conditional_investment_amount
                   /\ conditional_investment_count' = conditional_investment_count + 1
                   /\ conditional_investment_dates' =
                         Append(conditional_investment_dates, row.Date)
                   /\ last_conditional_investment_date' = row.Date
              ELSE UNCHANGED <<conditional_investment_total,
                               conditional_investment_count,
                               conditional_investment_dates,
                               last_conditional_investment_date>>
    /\ i' = i + 1
    /\ UNCHANGED <<inputs, chart, report, pc, outcome>>

\* range(1, len(df_combined)) is exhausted
LoopExit ==
    /\ pc = "loop"
    /\ i >= Len(df_combined)
    /\ pc' = "plot"
    /\ UNCHANGED <<inputs, loopvars, chart, report, outcome>>

\* df_combined[df_combined['Date'].isin(conditional_investment_dates)]
MarkerRows ==
    SelectSeq(df_combined,
              LAMBDA r : \E k \in 1..Len(conditional_investment_dates) :
                            conditional_investment_dates[k] = r.Date)

\* Lines 142-166: the chart of the trajectory, with the markers
Plot ==
    /\ pc = "plot"
    /\ chart' =
       <<[x |-> [k \in 1..Len(df_combined) |-> df_combined[k].Date],
          y |-> [k \in 1..Len(df_combined) |-> df_combined[k].Portfolio_Value],
          markers |-> IF conditional_investment_dates # <<>>
                      THEN [k \in 1..Len(MarkerRows) |-> MarkerRows[k].Date]
                      ELSE <<>>]>>
    /\ pc' = "metrics"
    /\ UNCHANGED <<inputs, loopvars, report, outcome>>

\* Mutant: the conditional total is left out of the sum
TotalInvestmentWithoutConditional == initial_investment + recurring_investment_total

\* initial_investment + recurring_investment_total + conditional_investment_total
TotalInvestment ==
    initial_investment + recurring_investment_total + conditional_investment_total

\* ((final_value - total_investment) / total_investment) * 100
TotalReturn(final_value, total_investment) ==
    RMul(RDiv(RSub(final_value, FromInt(total_investment)), FromInt(total_investment)),
         FromInt(100))

\* df_combined.iloc[-1]['Portfolio Value']
FinalValue == df_combined[Len(df_combined)].Portfolio_Value

\* 0.0 / 0.0 in numpy arithmetic
NaN == [num |-> 0, den |-> 0]

\* Line 169 on an empty table: iloc[-1] raises IndexError
MetricsIndexError ==
    /\ df_combined = <<>>
    /\ outcome' = "IndexError"
    /\ UNCHANGED report

\* Line 175 with total_investment == 0: a float division by zero.  A numpy
\* scalar dividend yields nan (with a warning) and the line prints "nan%";
\* a Python float dividend raises ZeroDivisionError.  Which one iloc[-1][...]
\* returns depends on the pandas build, so both outcomes are kept.
MetricsZeroDivision ==
    /\ df_combined # <<>>
    /\ TotalInvestment = 0
    /\ \/ /\ outcome' = "completed"
          /\ report' = <<[final_value |-> FinalValue,
                          total_investment |-> TotalInvestment,
                          total_return |-> NaN]>>
       \/ /\ outcome' = "ZeroDivisionError"
          /\ UNCHANGED report

MetricsWritten ==
    /\ df_combined # <<>>
    /\ TotalInvestment # 0
    /\ outcome' = "completed"
    /\ report' = <<[final_value |-> FinalValue,
                    total_investment |-> TotalInvestment,
                    total_return |-> TotalReturn(FinalValue, TotalInvestment)]>>

\* Lines 168-180: the final metrics
Metrics ==
    /\ pc = "metrics"
    /\ \/ MetricsIndexError
       \/ MetricsZeroDivision
       \/ MetricsWritten
    /\ pc' = "done"
    /\ UNCHANGED <<inputs, loopvars, chart>>

Next == Prepare \/ LoopStep \/ LoopExit \/ Plot \/ Metrics

Spec == Init /\ [][Next]_vars

SpecDaily == InitDaily /\ [][Next]_vars

\* ------------------------------------------------------------------------
\* Vocabulary of the properties
\* ------------------------------------------------------------------------

frequency_days == FrequencyDays(frequency)

cooldown_days == waiting_weeks * 7

\* Rows 1..i-1 (0-based) have been processed
Processed(k) == pc # "prepare" /\ 1 <= k /\ k < i /\ k < Len(df_combined)

\* The close is strictly below (1 - trigger_discount_pct/100) * rolling
\* statistic, in integers: 100 * close * den < (100 - pct) * num
Breaches(row) ==
    100 * row.Close * row.avg.den < (100 - percentage_decrease) * row.avg.num

RecurringOn(d) ==
    \E k \in 1..Len(recurring_investment_dates) : recurring_investment_dates[k] = d

ConditionalOn(d) ==
    \E k \in 1..Len(conditional_investment_dates) : conditional_investment_dates[k] = d

\* The asset's simple return on date d as a pair <<close - previous close,
\* previous close>>, the previous close being that of the asset's own
\* preceding row inside [start_date, end_date]; <<0, 1>> without one
SimpleReturn(df, d) ==
    LET k == CHOOSE n \in 1..Len(df) : df[n].Date = d
    IN  IF k = 1 \/ df[k - 1].Date < start_date THEN <<0, 1>>
        ELSE <<df[k].Close - df[k - 1].Close, df[k - 1].Close>>

\* 1 + sum over assets of weight * leverage * simple return, as one fraction
WeightedGrowth(d) ==
    LET rq == SimpleReturn(df_qqq, d)
        rt == SimpleReturn(df_tlt, d)
    IN  Rat(100 * rq[2] * rt[2]
              + qqq_weight * qqq_leverage * rq[1] * rt[2]
              + (100 - qqq_weight) * tlt_leverage * rt[1] * rq[2],
            100 * rq[2] * rt[2])

PortfolioValue(k) == df_combined[k + 1].Portfolio_Value

\* ------------------------------------------------------------------------
\* C1
\* ------------------------------------------------------------------------

C2_ConditionalRule ==
    /\ [](~use_conditional_investment =>
            /\ conditional_investment_count = 0
            /\ conditional_investment_dates = <<>>)
    /\ [][(pc = "loop" /\ i < Len(df_combined)) =>
            LET row == Row(i)
                fires == /\ use_conditional_investment
                         /\ Breaches(row)
                         /\ row.Date - last_conditional_investment_date
                               >= cooldown_days
            IN  /\ fires =>
                      /\ conditional_investment_count' =
                            conditional_investment_count + 1
                      /\ conditional_investment_total' =
                            conditional_investment_total
                               + conditional_investment_amount
                      /\ conditional_investment_dates' =
                            Append(conditional_investment_dates, row.Date)
                      /\ last_conditional_investment_date' = row.Date
                /\ ~fires =>
                      UNCHANGED <<conditional_investment_count,
                                  conditional_investment_total,
                                  conditional_investment_dates,
                                  last_conditional_investment_date>>]_vars

\* A breaching day held back by the cooldown of an earlier conditional event
C2_Witness ==
    /\ waiting_weeks = 3
    /\ \E k \in 1..(Len(df_combined) - 1) :
          /\ Processed(k)
          /\ Breaches(Row(k))
          /\ ~ConditionalOn(Row(k).Date)
          /\ conditional_investment_count = 1

\* ------------------------------------------------------------------------
\* C3
\* ------------------------------------------------------------------------

\* Adjacent rows k, k + 1 (both after the first, both processed) whose closes
\* both breach the threshold, with conditional investment enabled
BothBreach(k) ==
    /\ use_conditional_investment
    /\ Processed(k)
    /\ Processed(k + 1)
    /\ Breaches(Row(k))
    /\ Breaches(Row(k + 1))

EventsOn(k) ==
    (IF ConditionalOn(Row(k).Date) THEN 1 ELSE 0)
       + (IF ConditionalOn(Row(k + 1).Date) THEN 1 ELSE 0)

\* C3 (as claimed): two adjacent breaching days produce one conditional event
\* if cooldown_days > 0 and two if cooldown_days = 0.
C3_OneEventPerPair ==
    \A k \in 1..(Len(df_combined) - 2) :
        BothBreach(k) =>
            EventsOn(k) = (IF cooldown_days > 0 THEN 1 ELSE 2)

\* C3 (amended): two adjacent breaching days produce two events if
\* cooldown_days = 0; if cooldown_days > 0 and the two rows are fewer than
\* cooldown_days calendar days apart they produce at most one (none when both
\* fall inside the cooldown that is running); if the rows are at least
\* cooldown_days apart the second fires whenever the first does.
C3_CooldownByCalendarDays ==
    \A k \in 1..(Len(df_combined) - 2) :
        BothBreach(k) =>
            LET gap == Row(k + 1).Date - Row(k).Date
            IN  /\ cooldown_days = 0 => EventsOn(k) = 2
                /\ (cooldown_days > 0 /\ gap < cooldown_days) => EventsOn(k) <= 1
                /\ (gap >= cooldown_days /\ ConditionalOn(Row(k).Date)) =>
                      ConditionalOn(Row(k + 1).Date)

\* Two adjacent breaching days, a cooldown, and an event on each
C3_Witness ==
    \E k \in 1..(Len(df_combined) - 2) :
        /\ BothBreach(k)
        /\ cooldown_days > 0
        /\ EventsOn(k) = 2

\* ------------------------------------------------------------------------
\* C4
\* ------------------------------------------------------------------------

\* The merged table has one row for every day from start_date to end_date
GapFree ==
    /\ Len(df_combined) = end_date - start_date + 1
    /\ \A k \in 1..Len(df_combined) : df_combined[k].Date = start_date + k - 1

\* C4: with conditional investment disabled, on a gap-free window of days
\* 0..N the run adds exactly N \div F recurring contributions, on days F, 2F,
\* ..., none on day 0, and their total is the count times the amount; with
\* amount 100, F = 7 and N = 21 these are days 7, 14, 21 and 300.
C4_RecurringCount ==
    (pc \in {"plot", "metrics", "done"} /\ ~use_conditional_investment /\ GapFree) =>
        LET N == end_date - start_date
            F == frequency_days
        IN  /\ recurring_investment_count = N \div F
            /\ recurring_investment_dates =
                  [k \in 1..(N \div F) |-> start_date + k * F]
            /\ recurring_investment_total = (N \div F) * recurring_amount
            /\ conditional_investment_count = 0
            /\ (recurring_amount = 100 /\ F = 7 /\ N = 21) =>
                  /\ recurring_investment_dates = <<7, 14, 21>>
                  /\ recurring_investment_total = 300

\* The 21-day weekly scenario has run to its end
C4_Witness ==
    /\ pc = "done"
    /\ ~use_conditional_investment
    /\ GapFree
    /\ frequency = "Weekly"
    /\ recurring_amount = 100
    /\ end_date - start_date = 21
    /\ recurring_investment_count = 3

\* ------------------------------------------------------------------------
\* C5
\* ------------------------------------------------------------------------

\* The QQQ rows in range start with closes 100, 110, 99 on the first three
\* merged dates, QQQ carries the whole weight at leverage 3 from 1000, and no
\* contribution has been added on those dates
Scenario1300 ==
    /\ pc # "prepare"
    /\ Len(df_combined) >= 3
    /\ i >= 3
    /\ qqq_weight = 100
    /\ qqq_leverage = 3
    /\ initial_investment = 1000
    /\ LET q == FilterRange(df_qqq, start_date, end_date)
       IN  /\ Len(q) >= 3
           /\ \A k \in 1..3 : q[k].Date = df_combined[k].Date
           /\ q[1].Close = 100
           /\ q[2].Close = 110
           /\ q[3].Close = 99
    /\ \A k \in 2..3 :
          /\ ~RecurringOn(df_combined[k].Date)
          /\ ~ConditionalOn(df_combined[k].Date)

\* C5: the value on the first simulated date is initial_investment; on every
\* later date it is the previous date's value times (1 + sum over assets of
\* weight * leverage * simple return on that date) plus the contributions
\* added on that date, and earlier values are left as they were.  With one
\* asset at leverage 3 from 1000 and closes 100, 110, 99 the values are 1000,
\* 1300, 910; on a day without a price change the value moves by the
\* contributions alone.
C5_Compounding ==
    /\ []((pc # "prepare" /\ df_combined # <<>>) =>
             PortfolioValue(0) = FromInt(initial_investment))
    /\ [](Scenario1300 =>
             /\ PortfolioValue(0) = FromInt(1000)
             /\ PortfolioValue(1) = FromInt(1300)
             /\ PortfolioValue(2) = FromInt(910))
    /\ [][(pc = "loop" /\ i < Len(df_combined)) =>
            LET d == Row(i).Date
                added == (recurring_investment_total' - recurring_investment_total)
                            + (conditional_investment_total'
                                  - conditional_investment_total)
            IN  /\ df_combined'[i + 1].Portfolio_Value =
                      RAdd(RMul(PortfolioValue(i - 1), WeightedGrowth(d)),
                           FromInt(added))
                /\ \A k \in 1..i : df_combined'[k] = df_combined[k]
                /\ (SimpleReturn(df_qqq, d)[1] = 0 /\ SimpleReturn(df_tlt, d)[1] = 0) =>
                      df_combined'[i + 1].Portfolio_Value =
                         RAdd(PortfolioValue(i - 1), FromInt(added))]_vars

\* The scenario has been simulated through its third date
C5_Witness ==
    /\ Scenario1300
    /\ PortfolioValue(2) = FromInt(910)

\* ------------------------------------------------------------------------
\* C6
\* ------------------------------------------------------------------------

\* C6 (as claimed): a run over a non-empty table whose total investment is 0
\* completes and reports a total return of 0.
C6_ZeroInvestmentReturnsZero ==
    (pc = "done" /\ df_combined # <<>> /\ TotalInvestment = 0) =>
        /\ outcome = "completed"
        /\ report # <<>>
        /\ report[1].total_return = Zero

\* ------------------------------------------------------------------------
\* C7
\* ------------------------------------------------------------------------

\* C7 (as claimed): a run whose filtered, merged table is empty hands no
\* trajectory to the chart and ends in EmptyRangeError.
C7_EmptyRangeError ==
    (pc # "prepare" /\ df_combined = <<>>) =>
        /\ chart = <<>>
        /\ pc = "done" => outcome = "EmptyRangeError"

\* ------------------------------------------------------------------------
\* C8
\* ------------------------------------------------------------------------

\* Row k (after the first, processed) is the earliest whose close breaches
\* the threshold, with conditional investment enabled
FirstBreach(k) ==
    /\ use_conditional_investment
    /\ Processed(k)
    /\ Breaches(Row(k))
    /\ \A j \in 1..(k - 1) : ~Breaches(Row(j))

\* The loop variable is initialised a year before start_date
StartsAYearBack ==
    (pc = "loop" /\ i = 1) =>
        last_conditional_investment_date = start_date - 365

\* C8 (as claimed): last_conditional_investment_date starts at start_date
\* minus 365 days and, whatever the number of waiting weeks, the earliest
\* breaching day after the first row fires a conditional contribution.
C8_FirstBreachAlwaysFires ==
    /\ StartsAYearBack
    /\ \A k \in 1..(Len(df_combined) - 1) :
          FirstBreach(k) => ConditionalOn(Row(k).Date)

\* C8 (amended): last_conditional_investment_date starts at start_date minus
\* 365 days, and the earliest breaching day after the first row fires iff it
\* is at least cooldown_days - 365 days after start_date: always when the
\* cooldown is at most 365 days (waiting_weeks <= 52), and not during the
\* first waiting_weeks * 7 - 365 days of the run when waiting_weeks >= 53.
C8_FirstBreachWithinAYear ==
    /\ StartsAYearBack
    /\ \A k \in 1..(Len(df_combined) - 1) :
          FirstBreach(k) =>
             /\ ConditionalOn(Row(k).Date)
                   <=> (Row(k).Date - start_date >= waiting_weeks * 7 - 365)
             /\ waiting_weeks <= 52 => ConditionalOn(Row(k).Date)

\* An earliest breaching day that fired under a three-week cooldown
C8_Witness ==
    \E k \in 1..(Len(df_combined) - 1) :
        /\ FirstBreach(k)
        /\ waiting_weeks = 3
        /\ ConditionalOn(Row(k).Date)

\* ------------------------------------------------------------------------
\* C9
\* ------------------------------------------------------------------------

\* C9: the recurring and the conditional contribution are decided
\* independently and added after the day's compounding: the day's value is
\* the previous value times the weighted growth, plus recurring_amount if the
\* recurring condition holds, plus conditional_investment_amount if the
\* conditional one holds (both when both hold); the recurring variables
\* change only when the recurring condition holds and the conditional ones
\* only when the conditional condition holds.
C9_IndependentContributions ==
    [][(pc = "loop" /\ i < Len(df_combined)) =>
          LET row == Row(i)
              rec == row.Date >= current_date
              cond == /\ use_conditional_investment
                      /\ Breaches(row)
                      /\ row.Date - last_conditional_investment_date >= cooldown_days
              grown == RMul(PortfolioValue(i - 1), WeightedGrowth(row.Date))
              amounts == (IF rec THEN recurring_amount ELSE 0)
                            + (IF cond THEN conditional_investment_amount ELSE 0)
          IN  /\ df_combined'[i + 1].Portfolio_Value = RAdd(grown, FromInt(amounts))
              /\ recurring_investment_count' =
                    recurring_investment_count + (IF rec THEN 1 ELSE 0)
              /\ conditional_investment_count' =
                    conditional_investment_count + (IF cond THEN 1 ELSE 0)
              /\ ~rec => UNCHANGED <<current_date, recurring_investment_total,
                                     recurring_investment_count>>
              /\ ~cond => UNCHANGED <<last_conditional_investment_date,
                                      conditional_investment_total,
                                      conditional_investment_count,
                                      conditional_investment_dates>>
              /\ rec => current_date' = current_date + frequency_days
              /\ cond => last_conditional_investment_date' = row.Date]_vars

\* A day on which both contributions were added, to a portfolio that had a
\* return that day
C9_Witness ==
    \E k \in 1..(Len(df_combined) - 1) :
        /\ Processed(k)
        /\ RecurringOn(Row(k).Date)
        /\ ConditionalOn(Row(k).Date)
        /\ recurring_amount > 0
        /\ conditional_investment_amount > 0
        /\ WeightedGrowth(Row(k).Date) # FromInt(1)

\* ------------------------------------------------------------------------
\* C10
\* ------------------------------------------------------------------------

\* C10: after every step of the loop the totals are count times amount, the
\* conditional count is the number of recorded dates, the recorded dates are
\* strictly increasing dates of processed rows after the first,
\* last_conditional_investment_date is the last recorded date once there is
\* one, and the reported total investment is the initial investment plus
\* both totals.
C10_Accounting ==
    pc # "prepare" =>
        /\ recurring_investment_total = recurring_investment_count * recurring_amount
        /\ conditional_investment_total =
              conditional_investment_count * conditional_investment_amount
        /\ conditional_investment_count = Len(conditional_investment_dates)
        /\ \A k \in 1..Len(conditional_investment_dates) :
              /\ k > 1 => conditional_investment_dates[k]
                             > conditional_investment_dates[k - 1]
              /\ \E j \in 1..(Len(df_combined) - 1) :
                    /\ Processed(j)
                    /\ Row(j).Date = conditional_investment_dates[k]
        /\ conditional_investment_dates # <<>> =>
              last_conditional_investment_date =
                 conditional_investment_dates[Len(conditional_investment_dates)]
        /\ report # <<>> =>
              report[1].total_investment =
                 initial_investment + recurring_investment_total
                    + conditional_investment_total

\* A finished run that reported its totals after both kinds of contribution
C10_Witness ==
    /\ pc = "done"
    /\ report # <<>>
    /\ recurring_investment_total > 0
    /\ conditional_investment_total > 0
    /\ Len(conditional_investment_dates) >= 2

====
